---- MODULE Spec2Model ----
(***************************************************************************)
(* Model of m3u_tools: split_m3u_playlist (split_m3u.py) and               *)
(* combine_m3u_files (combine_m3u.py) acting on a small file system.       *)
(*                                                                         *)
(* Strings are sequences of one-character strings, so that strip,          *)
(* startswith, lower, the title regex and the filename formatting are      *)
(* computed character by character.  A text file is a record               *)
(* [lines, nl]: its lines without their line endings, and whether the      *)
(* last line is terminated (every line but the last always is).            *)
(* The file system is the set of existing directories below the working    *)
(* directory ("out" and its child "sub") and the sequence of files, in     *)
(* directory listing order; a new file is listed after the existing ones.  *)
(* The output directory is either absent or a directory, and filenames     *)
(* are within what the file system accepts.                                *)
(* log records each run: the operation, its output_file argument, the      *)
(* file system it found, its file_count and, for every '#EXTINF:' line,    *)
(* the match, the title and the filename the run computed.                 *)
(***************************************************************************)
EXTENDS Integers, Sequences, FiniteSets, TLC

VARIABLES files, dirs, log

vars == <<files, dirs, log>>

\* ---------------------------------------------------------------- bounds
MaxItems == 2      \* line groups a master playlist is built from
MaxFiles == 2      \* files present under the input directory of a combine world
MaxRuns  == 2      \* operations run one after the other

\* ------------------------------------------------------- string literals
EXTM3U == <<"#","E","X","T","M","3","U">>
EXTINF == <<"#","E","X","T","I","N","F",":">>
LowerHeader == <<"#","e","x","t","m","3","u">>
DotM3u == <<".","m","3","u">>
UnknownStream == <<"u","n","k","n","o","w","n","_","s","t","r","e","a","m","_">>
Hash == <<"#">>
Underscore == <<"_">>
Whitespace == {" ", "\t"}
BadChars == {"\\", "/", ":", "*", "?", "\"", "<", ">", "|"}
Digits == <<"0","1","2","3","4","5","6","7","8","9">>

\* ---------------------------------------------------- string primitives
startswith(s, p) == Len(p) <= Len(s) /\ SubSeq(s, 1, Len(p)) = p

endswith(s, p) == Len(p) <= Len(s) /\ SubSeq(s, Len(s) - Len(p) + 1, Len(s)) = p

RECURSIVE lstrip(_)
lstrip(s) == IF s # <<>> /\ Head(s) \in Whitespace THEN lstrip(Tail(s)) ELSE s

RECURSIVE rstrip(_)
rstrip(s) ==
    IF s # <<>> /\ s[Len(s)] \in Whitespace THEN rstrip(SubSeq(s, 1, Len(s) - 1)) ELSE s

strip(s) == rstrip(lstrip(s))

LowerChar(c) ==
    CASE c = "E" -> "e" [] c = "X" -> "x" [] c = "T" -> "t" [] c = "M" -> "m"
      [] c = "U" -> "u" [] c = "I" -> "i" [] c = "N" -> "n" [] c = "F" -> "f"
      [] OTHER -> c

lower(s) == [i \in 1..Len(s) |-> LowerChar(s[i])]

RECURSIVE str(_)
str(n) == IF n < 10 THEN <<Digits[n + 1]>> ELSE str(n \div 10) \o <<Digits[(n % 10) + 1]>>

\* ------------------------------------------------------------ file system
Content(lines, nl) == [lines |-> lines, nl |-> (nl \/ lines = <<>>)]

File(dir, name, content) == [dir |-> dir, name |-> name, content |-> content]

IndexOf(fs, dir, name) ==
    LET S == {i \in 1..Len(fs) : fs[i].dir = dir /\ fs[i].name = name}
    IN  IF S = {} THEN 0 ELSE CHOOSE i \in S : TRUE

exists(fs, dir, name) == IndexOf(fs, dir, name) # 0

\* open(path, 'w') followed by the writes and close
WriteFile(fs, dir, name, content) ==
    LET i == IndexOf(fs, dir, name)
    IN  IF i = 0 THEN Append(fs, File(dir, name, content))
        ELSE [fs EXCEPT ![i].content = content]

\* --------------------------------------------------------------- splitter
MasterDir == "cwd"
MasterName == <<"m">>
OutDir == "out"

\* re.search(r'#EXTINF:.*?\,(.*?)$', line) on a stripped line that starts
\* with '#EXTINF:': the lazy '.*?' stops at the first comma after the prefix
\* and the group runs to the end of the line.
search_title(line) ==
    LET C == {i \in (Len(EXTINF) + 1)..Len(line) : line[i] = ","}
    IN  IF C = {} THEN [matched |-> FALSE, group |-> <<>>]
        ELSE LET i == CHOOSE c \in C : \A d \in C : c <= d
             IN  [matched |-> TRUE, group |-> SubSeq(line, i + 1, Len(line))]

\* re.sub(r'[\\/:*?"<>|]', '', title)
sanitize(title) == SelectSeq(title, LAMBDA c : c \notin BadChars)

derive_title_count_from_one(line, file_count) ==
    LET m == search_title(line)
        title == sanitize(strip(m.group))
    IN  IF m.matched /\ title # <<>> THEN title ELSE UnknownStream \o str(file_count + 1)

\* the title of the match, sanitized, or 'unknown_stream_<file_count>'
derive_title(line, file_count) ==
    LET m == search_title(line)
    IN  IF m.matched
        THEN LET title == sanitize(strip(m.group))
             IN  IF title = <<>> THEN UnknownStream \o str(file_count) ELSE title
        ELSE UnknownStream \o str(file_count)

is_url_line_always(next_line) == TRUE

\* not next_line.startswith('#')
is_url_line(next_line) == ~startswith(next_line, Hash)

RECURSIVE next_free_name(_, _, _)
next_free_name(fs, title, counter) ==
    LET name == title \o Underscore \o str(counter) \o DotM3u
    IN  IF exists(fs, OutDir, name) THEN next_free_name(fs, title, counter + 1) ELSE name

unique_filename_from_zero(fs, title) ==
    IF exists(fs, OutDir, title \o DotM3u) THEN next_free_name(fs, title, 0)
    ELSE title \o DotM3u

\* base name, then _1, _2, ... while os.path.exists
unique_filename(fs, title) ==
    IF exists(fs, OutDir, title \o DotM3u) THEN next_free_name(fs, title, 1)
    ELSE title \o DotM3u

entry_content_no_url(extinf, url) == Content(<<EXTM3U, extinf>>, TRUE)

\* the three writes of one entry file
entry_content(extinf, url) == Content(<<EXTM3U, extinf, url>>, TRUE)

\* the for loop over the lines of the master playlist, from line i on
RECURSIVE split_loop(_, _, _, _, _)
split_loop(lines, i, fs, file_count, entries) ==
    IF i > Len(lines) THEN [files |-> fs, count |-> file_count, entries |-> entries]
    ELSE LET line == strip(lines[i])
         IN  IF ~startswith(line, EXTINF)
             THEN split_loop(lines, i + 1, fs, file_count, entries)
             ELSE LET m == search_title(line)
                      title == derive_title(line, file_count)
                      has_next == i + 1 <= Len(lines)
                      next_line == IF has_next THEN strip(lines[i + 1]) ELSE <<>>
                      name == unique_filename(fs, title)
                      seen == [idx |-> i, extinf |-> line, matched |-> m.matched,
                               group |-> strip(m.group), title |-> title]
                  IN  IF has_next /\ is_url_line(next_line)
                      THEN split_loop(lines, i + 1,
                               WriteFile(fs, OutDir, name, entry_content(line, next_line)),
                               file_count + 1,
                               Append(entries, seen @@ [written |-> TRUE, name |-> name]))
                      ELSE split_loop(lines, i + 1, fs, file_count,
                               Append(entries, seen @@ [written |-> FALSE, name |-> <<>>]))

Snapshot(fs, ds) == [files |-> fs, dirs |-> ds]

NoPath == [dir |-> "", name |-> <<>>]

\* makedirs of the output directory, open of the input file, the loop;
\* FileNotFoundError leaves file_count at 0
split_m3u_playlist ==
    /\ Len(log) < MaxRuns
    /\ LET ds == dirs \cup {OutDir}
           m == IndexOf(files, MasterDir, MasterName)
           r == IF m = 0 THEN [files |-> files, count |-> 0, entries |-> <<>>]
                ELSE split_loop(files[m].content.lines, 1, files, 0, <<>>)
       IN  /\ dirs' = ds
           /\ files' = r.files
           /\ log' = Append(log, [op |-> "split", outfile |-> NoPath,
                                  pre |-> Snapshot(files, dirs),
                                  count |-> r.count, entries |-> r.entries])

\* --------------------------------------------------------------- combiner
InDir == "out"
SubDir == "sub"

is_m3u_name_any(filename) == TRUE

\* filename.lower().endswith('.m3u')
is_m3u_name(filename) == endswith(lower(filename), DotM3u)

\* os.walk(input_directory): the files of the directory in listing order,
\* then those of its subdirectory
walk(fs, ds) ==
    SelectSeq(fs, LAMBDA f : f.dir = InDir)
        \o (IF SubDir \in ds THEN SelectSeq(fs, LAMBDA f : f.dir = SubDir) ELSE <<>>)

matched_files(fs, ds) == SelectSeq(walk(fs, ds), LAMBDA f : is_m3u_name(f.name))

\* iterating an open text file: each line with its line ending, which only
\* the last line can lack
read_lines(content) ==
    [i \in 1..Len(content.lines) |->
        [text |-> content.lines[i], nl |-> (i < Len(content.lines) \/ content.nl)]]

\* stripped_line and stripped_line.lower() != '#extm3u'
keep_line(line) == strip(line.text) # <<>> /\ lower(strip(line.text)) # LowerHeader

RECURSIVE collect(_, _)
collect(fls, i) ==
    IF i > Len(fls) THEN <<>>
    ELSE SelectSeq(read_lines(fls[i].content), keep_line) \o collect(fls, i + 1)

\* combined_content after the traversal
combined_content(fs, ds) == <<[text |-> EXTM3U, nl |-> TRUE]>> \o collect(matched_files(fs, ds), 1)

\* the text that writelines produces, read back as lines: an item without
\* a line ending runs into the item after it
RECURSIVE join_items(_, _, _, _, _)
join_items(items, i, acc, cur, open) ==
    IF i > Len(items) THEN Content(IF open THEN Append(acc, cur) ELSE acc, ~open)
    ELSE IF items[i].nl
         THEN join_items(items, i + 1, Append(acc, cur \o items[i].text), <<>>, FALSE)
         ELSE join_items(items, i + 1, acc, cur \o items[i].text, TRUE)

writelines(items) == join_items(items, 1, <<>>, <<>>, FALSE)

write_output_append(fs, outfile, content) ==
    LET i == IndexOf(fs, outfile.dir, outfile.name)
    IN  IF i = 0 THEN WriteFile(fs, outfile.dir, outfile.name, content)
        ELSE WriteFile(fs, outfile.dir, outfile.name,
                 Content(fs[i].content.lines \o content.lines, content.nl))

\* open(output_file, 'w') and writelines
write_output(fs, outfile, content) == WriteFile(fs, outfile.dir, outfile.name, content)

OutFiles ==
    { [dir |-> "cwd", name |-> <<"c">> \o DotM3u],
      [dir |-> InDir, name |-> <<"c">> \o DotM3u],
      [dir |-> InDir, name |-> <<"c", ".", "t", "x", "t">>] }

combine_m3u_files(output_file) ==
    /\ Len(log) < MaxRuns
    /\ LET found == InDir \in dirs /\ matched_files(files, dirs) # <<>>
           fs == IF found
                 THEN write_output(files, output_file, writelines(combined_content(files, dirs)))
                 ELSE files
       IN  /\ files' = fs
           /\ dirs' = dirs
           /\ log' = Append(log, [op |-> "combine", outfile |-> output_file,
                                  pre |-> Snapshot(files, dirs),
                                  count |-> 0, entries |-> <<>>])

\* ------------------------------------------------------- initial worlds
MetaA         == EXTINF \o <<"1", ",", "a">>
MetaAPadded   == EXTINF \o <<"1", ",", " ", "a", ":", " ">>
MetaEmpty     == EXTINF \o <<"1", ",", ":">>
MetaNoComma   == EXTINF \o <<"1">>
MetaTwoCommas == EXTINF \o <<"1", ",", "a", ",", "b">>
MetaOld       == EXTINF \o <<"1", ",", "z">>
UrlU == <<"u">>
UrlV == <<" ", "v", " ">>
Blank == <<>>

\* the line groups a master playlist is made of
Items ==
    { <<EXTM3U>>, <<MetaA, UrlU>>, <<MetaAPadded, UrlV>>, <<MetaEmpty, UrlU>>,
      <<MetaNoComma, UrlV>>, <<MetaTwoCommas, UrlU>>, <<MetaA>>, <<Blank>> }

SeqsUpTo(S, n) == UNION {[1..k -> S] : k \in 0..n}

RECURSIVE Flatten(_)
Flatten(ss) == IF ss = <<>> THEN <<>> ELSE Head(ss) \o Flatten(Tail(ss))

Playlists == {Flatten(ss) : ss \in SeqsUpTo(Items, MaxItems)}

OldContent == Content(<<EXTM3U, MetaOld, <<"o">>>>, TRUE)

Old(name) == File(OutDir, name, OldContent)

\* what the output directory holds before a split
OutStates ==
    { Snapshot(<<>>, {}),
      Snapshot(<<Old(<<"z", ".", "t", "x", "t">>)>>, {OutDir}),
      Snapshot(<<Old(<<"a">> \o DotM3u)>>, {OutDir}),
      Snapshot(<<Old(<<"a">> \o DotM3u), Old(<<"a", "_", "1">> \o DotM3u)>>, {OutDir}),
      Snapshot(<<Old(UnknownStream \o <<"0">> \o DotM3u)>>, {OutDir}) }

SplitWorlds ==
    { Snapshot(<<File(MasterDir, MasterName, Content(p, TRUE))>> \o o.files, o.dirs) :
        p \in Playlists, o \in OutStates }

\* the files a combine world is made of
Regular == Content(<<EXTM3U, MetaA, UrlU>>, TRUE)

InContents ==
    { Regular,
      Content(<<EXTM3U, <<"k">>>>, FALSE),
      Content(<<EXTM3U, <<"#", "E", "X", "T">>>>, FALSE),
      Content(<<EXTM3U, <<"M", "3", "U">>>>, TRUE),
      Content(<<EXTM3U, <<" ">>, <<"k">>, <<" ", "#", "e", "x", "t", "m", "3", "u", " ">>>>, TRUE) }

InFiles ==
    {File(InDir, <<"x">> \o DotM3u, c) : c \in InContents}
        \cup {File(InDir, <<"y", ".", "M", "3", "U">>, c) : c \in InContents}
        \cup {File(InDir, <<"z", ".", "t", "x", "t">>, Regular)}
        \cup {File(SubDir, <<"s">> \o DotM3u, c) : c \in {Regular, Content(<<<<"k">>>>, TRUE)}}

DistinctPaths(fs) ==
    \A i, j \in 1..Len(fs) : (fs[i].dir = fs[j].dir /\ fs[i].name = fs[j].name) => i = j

CombineWorlds ==
    { Snapshot(fs, {InDir} \cup {fs[i].dir : i \in 1..Len(fs)}) :
        fs \in {g \in SeqsUpTo(InFiles, MaxFiles) : DistinctPaths(g)} }

\* a master playlist next to an output directory, an output directory with
\* no master playlist, or an input directory of playlist files
Init ==
    /\ log = <<>>
    /\ \E w \in SplitWorlds \cup OutStates \cup CombineWorlds :
          files = w.files /\ dirs = w.dirs

Next ==
    \/ split_m3u_playlist
    \/ \E output_file \in OutFiles : combine_m3u_files(output_file)

Spec == Init /\ [][Next]_vars

\* ------------------------------------------- vocabulary of the properties
Runs(op) == {r \in 1..Len(log) : log[r].op = op}

\* the file system run r left behind: what the next run found, or the present one
Post(r) == IF r < Len(log) THEN log[r + 1].pre ELSE Snapshot(files, dirs)

HasMaster(snap) == exists(snap.files, MasterDir, MasterName)

MasterLines(snap) == snap.files[IndexOf(snap.files, MasterDir, MasterName)].content.lines

\* positions of the '#EXTINF:' lines whose next line exists and is no '#' line
EntryIdx(lines) ==
    {i \in 1..(Len(lines) - 1) :
        /\ startswith(strip(lines[i]), EXTINF)
        /\ ~startswith(strip(lines[i + 1]), Hash)}

RECURSIVE SortedSeq(_)
SortedSeq(S) ==
    IF S = {} THEN <<>>
    ELSE LET m == CHOOSE x \in S : \A y \in S : x <= y
         IN  <<m>> \o SortedSeq(S \ {m})

Pairs(lines) == {<<strip(lines[i]), strip(lines[i + 1])>> : i \in EntryIdx(lines)}

Written(r) == SelectSeq(log[r].entries, LAMBDA e : e.written)

NamesIn(fs, dir) == {fs[i].name : i \in {k \in 1..Len(fs) : fs[k].dir = dir}}

Numbered(title, k) == title \o Underscore \o str(k) \o DotM3u

\* the name the collision rule gives a title when the names in T are taken
FreeNameFor(title, T) ==
    IF title \o DotM3u \notin T THEN title \o DotM3u
    ELSE Numbered(title, CHOOSE k \in 1..(Cardinality(T) + 1) :
                             /\ Numbered(title, k) \notin T
                             /\ \A j \in 1..(k - 1) : Numbered(title, j) \in T)

\* the names taken in the output directory when the j-th entry of run r is written
TakenBefore(r, j) ==
    NamesIn(log[r].pre.files, OutDir)
        \cup {Post(r).files[Len(log[r].pre.files) + i].name : i \in 1..(j - 1)}

EndsInM3u(name) == endswith(lower(name), DotM3u)

UnderInDir(f) == f.dir \in {InDir, SubDir}

M3uUnder(snap) ==
    {i \in 1..Len(snap.files) : UnderInDir(snap.files[i]) /\ EndsInM3u(snap.files[i].name)}

FileAt(snap, path) ==
    LET i == IndexOf(snap.files, path.dir, path.name)
    IN  IF i = 0 THEN [present |-> FALSE, content |-> Content(<<>>, TRUE)]
        ELSE [present |-> TRUE, content |-> snap.files[i].content]

\* a combine run that reached the write of its output
Wrote(r) == log[r].op = "combine" /\ InDir \in log[r].pre.dirs /\ M3uUnder(log[r].pre) # {}

\* ------------------------------------------------------------------ C1
\* C1: a split writes exactly one new file per '#EXTINF:' line whose next
\* line exists and does not start with '#', in order, each file holding the
\* three lines '#EXTM3U', the metadata line, the URL line; nothing else is
\* created and no existing file changes.
C1_OneFilePerEntry ==
    \A r \in Runs("split") : HasMaster(log[r].pre) =>
        LET lines == MasterLines(log[r].pre)
            idx == SortedSeq(EntryIdx(lines))
            pre == log[r].pre.files
            post == Post(r).files
        IN  /\ Len(post) = Len(pre) + Len(idx)
            /\ SubSeq(post, 1, Len(pre)) = pre
            /\ DistinctPaths(post)
            /\ \A j \in 1..Len(idx) :
                 /\ post[Len(pre) + j].dir = OutDir
                 /\ post[Len(pre) + j].content =
                      [lines |-> <<EXTM3U, strip(lines[idx[j]]), strip(lines[idx[j] + 1])>>,
                       nl |-> TRUE]

C1_Witness ==
    \E r \in Runs("split") :
        /\ HasMaster(log[r].pre)
        /\ Len(log[r].entries) = 2
        /\ log[r].count = 1
        /\ Len(Post(r).files) = Len(log[r].pre.files) + 1

\* ------------------------------------------------------------------ C4
\* C4: each entry file is named '<title>.m3u' when that name is free in the
\* output directory and otherwise '<title>_k.m3u' for the smallest k >= 1
\* whose name is free; every file that existed before the split is unchanged.
C4_CollisionFreeNames ==
    \A r \in Runs("split") :
        LET pre == log[r].pre.files
            post == Post(r).files
            w == Written(r)
        IN  /\ Len(post) = Len(pre) + Len(w)
            /\ SubSeq(post, 1, Len(pre)) = pre
            /\ \A j \in 1..Len(w) :
                 post[Len(pre) + j].name = FreeNameFor(w[j].title, TakenBefore(r, j))

C4_Witness ==
    \E r \in Runs("split") :
        LET pre == log[r].pre.files
            post == Post(r).files
            w == Written(r)
        IN  /\ Len(w) = 2
            /\ Len(post) = Len(pre) + 2
            /\ w[1].title = w[2].title
            /\ post[Len(pre) + 1].name = w[1].title \o DotM3u
            /\ post[Len(pre) + 2].name = w[1].title \o <<"_", "1">> \o DotM3u

\* ------------------------------------------------------------------ C5
Fallback(e) == ~e.matched \/ sanitize(e.group) = <<>>

\* C5 as claimed: an entry with no comma or an empty sanitized title is
\* written to 'unknown_stream_<k>.m3u', k the entries written before it.
C5_Claimed ==
    \A r \in Runs("split") :
        LET pre == log[r].pre.files
            post == Post(r).files
            w == Written(r)
        IN  \A j \in 1..Len(w) : Fallback(w[j]) =>
                post[Len(pre) + j].name = UnknownStream \o str(j - 1) \o DotM3u

\* C5 as amended: an entry with no comma or an empty sanitized title is
\* written to 'unknown_stream_<k>.m3u', k the entries written before it in
\* this run, when that name is free in the output directory, and otherwise
\* to 'unknown_stream_<k>_<n>.m3u' for the smallest n >= 1 whose name is free.
C5_UnknownStreamName ==
    \A r \in Runs("split") :
        LET pre == log[r].pre.files
            post == Post(r).files
            w == Written(r)
        IN  /\ Len(post) = Len(pre) + Len(w)
            /\ \A j \in 1..Len(w) : Fallback(w[j]) =>
                 post[Len(pre) + j].name =
                    FreeNameFor(UnknownStream \o str(j - 1), TakenBefore(r, j))

C5_Witness ==
    \E r \in Runs("split") :
        LET pre == log[r].pre.files
            post == Post(r).files
            w == Written(r)
        IN  /\ Len(w) = 2
            /\ Fallback(w[2])
            /\ exists(pre, OutDir, UnknownStream \o <<"1">> \o DotM3u) = FALSE
            /\ post[Len(pre) + 2].name = UnknownStream \o <<"1">> \o DotM3u

\* ------------------------------------------------------------------ C7
\* C7 as claimed: a split whose input file does not exist leaves the file
\* system as it was, directories included, and counts 0 files.
C7_Claimed ==
    \A r \in Runs("split") : ~HasMaster(log[r].pre) =>
        /\ Post(r) = log[r].pre
        /\ log[r].count = 0

\* ------------------------------------------------------------------ C8
after_last_comma(line) ==
    LET C == {i \in 1..Len(line) : line[i] = ","}
    IN  SubSeq(line, (CHOOSE c \in C : \A d \in C : d <= c) + 1, Len(line))

\* C8 as claimed: the title taken from an '#EXTINF:' line is the text after
\* the last comma of the line, stripped.
C8_Claimed ==
    \A r \in Runs("split") :
        \A j \in 1..Len(log[r].entries) :
            LET e == log[r].entries[j]
            IN  e.matched => e.group = strip(after_last_comma(e.extinf))

\* ------------------------------------------------------------------ C2
OutputPairs(r) ==
    LET f == FileAt(Post(r), log[r].outfile)
    IN  IF f.present THEN Pairs(f.content.lines) ELSE {}

SplitThenCombine(r) ==
    /\ r + 1 <= Len(log)
    /\ log[r].op = "split"
    /\ HasMaster(log[r].pre)
    /\ log[r + 1].op = "combine"

\* C2 as claimed: splitting a master playlist and combining the output
\* directory yields a playlist with the same set of (metadata, URL) pairs.
C2_Claimed ==
    \A r \in 1..Len(log) : SplitThenCombine(r) =>
        OutputPairs(r + 1) = Pairs(MasterLines(log[r].pre))

NoBlankUrl(lines) == \A i \in EntryIdx(lines) : strip(lines[i + 1]) # <<>>

\* C2 as amended: the round trip preserves the set of (metadata, URL) pairs
\* when no '#EXTINF:' line of the master playlist is followed by a blank
\* line and the output directory held no '.m3u' file before the split.
C2_RoundTrip ==
    \A r \in 1..Len(log) :
        (/\ SplitThenCombine(r)
         /\ NoBlankUrl(MasterLines(log[r].pre))
         /\ M3uUnder(log[r].pre) = {})
        => OutputPairs(r + 1) = Pairs(MasterLines(log[r].pre))

C2_Witness ==
    \E r \in 1..Len(log) :
        /\ SplitThenCombine(r)
        /\ NoBlankUrl(MasterLines(log[r].pre))
        /\ M3uUnder(log[r].pre) = {}
        /\ log[r].count = 2
        /\ Cardinality(OutputPairs(r + 1)) = 2
        /\ OutputPairs(r + 1) = Pairs(MasterLines(log[r].pre))

\* ------------------------------------------------------------------ C3
HeaderLines(lines) == {i \in 1..Len(lines) : lower(strip(lines[i])) = LowerHeader}

StartsWithHeader(f) == f.content.lines # <<>> /\ f.content.lines[1] = EXTM3U

\* C3 as claimed: when every input file starts with '#EXTM3U', the combined
\* file has exactly one '#EXTM3U' line, and it is the first line.
C3_Claimed ==
    \A r \in 1..Len(log) :
        (/\ Wrote(r)
         /\ \A i \in M3uUnder(log[r].pre) : StartsWithHeader(log[r].pre.files[i]))
        => LET out == FileAt(Post(r), log[r].outfile).content.lines
           IN  /\ out # <<>>
               /\ out[1] = EXTM3U
               /\ HeaderLines(out) = {1}

\* ------------------------------------------------------------------ C6
\* C6: a combine whose input directory does not exist, or holds no file
\* with a name ending in '.m3u' in any letter case, leaves the file system
\* as it was.
C6_NothingWritten ==
    \A r \in Runs("combine") :
        (InDir \notin log[r].pre.dirs \/ M3uUnder(log[r].pre) = {})
        => Post(r) = log[r].pre

C6_Witness ==
    \E r \in Runs("combine") :
        /\ InDir \in log[r].pre.dirs
        /\ \E i \in 1..Len(log[r].pre.files) : UnderInDir(log[r].pre.files[i])
        /\ M3uUnder(log[r].pre) = {}
        /\ Post(r) = log[r].pre
        /\ files = Post(r).files

\* ------------------------------------------------------------------ C9
\* C9 as claimed: the combined file is '#EXTM3U' followed by every kept
\* input line as a line of its own, in traversal order.
C9_Claimed ==
    \A r \in 1..Len(log) : Wrote(r) =>
        LET kept == combined_content(log[r].pre.files, log[r].pre.dirs)
        IN  FileAt(Post(r), log[r].outfile).content.lines
              = [i \in 1..Len(kept) |-> kept[i].text]

\* ----------------------------------------------------------------- C10
SameCombineTwice(r) ==
    /\ r + 1 <= Len(log)
    /\ log[r].op = "combine"
    /\ log[r + 1].op = "combine"
    /\ log[r + 1].outfile = log[r].outfile

\* C10 as claimed: a second combine with the same arguments leaves the
\* output file with the content the first one gave it.
C10_Claimed ==
    \A r \in 1..Len(log) : SameCombineTwice(r) =>
        FileAt(Post(r + 1), log[r].outfile) = FileAt(Post(r), log[r].outfile)

IsInput(path) == UnderInDir(path) /\ EndsInM3u(path.name)

\* C10 as amended: a second combine with the same arguments leaves the
\* output file with the content the first one gave it, provided the output
\* path is not itself a '.m3u' file under the input directory.
C10_Idempotent ==
    \A r \in 1..Len(log) : (SameCombineTwice(r) /\ ~IsInput(log[r].outfile)) =>
        FileAt(Post(r + 1), log[r].outfile) = FileAt(Post(r), log[r].outfile)

C10_Witness ==
    \E r \in 1..Len(log) :
        /\ SameCombineTwice(r)
        /\ ~IsInput(log[r].outfile)
        /\ Wrote(r)
        /\ Len(FileAt(Post(r), log[r].outfile).content.lines) >= 3
        /\ FileAt(Post(r + 1), log[r].outfile) = FileAt(Post(r), log[r].outfile)

====
